---- MODULE Spec2Model ----
(***************************************************************************)
(* Model of src/gather.go.  The file holds two programs:                   *)
(*                                                                         *)
(*   lines   1-199  the Go exporter's gather functions: processMetrics,     *)
(*                  gatherData, getJSON, setEndpoint, storeStackRef and     *)
(*                  retrieveStackRef.  Their callers and callees            *)
(*                  (the collect loop, checkMetric, set*Metrics, the        *)
(*                  declaration of stackRef) are not in src/ and are        *)
(*                  modelled from spec.md where the model needs them.       *)
(*   lines 201-454  the Node exporter: createServer, updateMetrics,         *)
(*                  getEnvironmentsState, jsonRequest, getSafeName.         *)
(*                                                                         *)
(* Spec      is the Go exporter run cycle by cycle,                         *)
(* SpecPM    applies processMetrics once to an arbitrary record batch,      *)
(* SpecStore is the Reference Store under arbitrary put/get sequences,      *)
(* SpecNode  is the Node exporter's scheduler and fetch pipeline,           *)
(* SpecURL   applies setEndpoint to any base URL and component,             *)
(* SpecStages applies the callbacks and stages of getEnvironmentsState      *)
(*           and the callback of updateMetrics to the answers of the API.   *)
(***************************************************************************)
EXTENDS Naturals, Sequences, FiniteSets, TLC

(***************************************************************************)
(* Bounds of the model.                                                    *)
(***************************************************************************)
\* records in one response of a cycle (Spec)
MaxBatch == 2
\* cycles of the Go exporter (Spec)
MaxCycles == 2
\* records in the batch handed to processMetrics in SpecPM
MaxBatchPM == 2
\* put operations in SpecStore
MaxPuts == 3
\* interval ticks of the Node exporter (SpecNode)
MaxTicks == 2
\* characters of the base URL handed to setEndpoint (SpecURL)
MaxUrlLen == 4
\* records in the environments answer (SpecStages)
MaxEnvs == 2
\* service records in the services answers of a cycle (SpecStages)
MaxServices == 3

VARIABLES
    hideSys,    \* the suppress-system flag handed to processMetrics
    stackRef,   \* the Go Reference Store: map stack id -> stack name
    goCycle,    \* cycles started so far
    goPc,       \* "idle", the endpoint whose step runs next, "panic", or "pm"/"store"
    fetched,    \* this cycle: endpoint -> "none" | "ok" | "err" | "panic"
    emitted,    \* this cycle: endpoints whose processMetrics pass returned nil
    stackIds,   \* this cycle: the ids of the records of the stacks response
    stackNames, \* this cycle: id -> name of the last stack record with that
                \* id that was neither a suppressed system record nor of
                \* another category
    lastEp,     \* endpoint of the last step ("none" before the first)
    lastResp,   \* the HTTP response of the last step
    lastBatch,  \* the batch processMetrics got in the last step
    ref0,       \* stackRef as it was before the last step
    calls,      \* the set*Metrics calls of the last step, in order
    sink,       \* the observations the sink accepted in the last step
    putLog,     \* SpecStore: the put operations so far, in order
    got,        \* SpecStore: the get since the last put, [id, name], or <<>>
    jsState,    \* Node process: "running" | "crashed" | "exited"
    jsError,    \* the uncaught exception that crashed it, or "none"
    jsCycles,   \* cycles started by updateMetrics
    jsReq,      \* cycle -> its projects, environments and hosts requests,
                \* and how often the final callback of its waterfall fired
    urlIn,      \* SpecURL: [base, component] handed to setEndpoint, or <<>>
    urlOut,     \* SpecURL: the endpoint URL it returned
    envIdMap,   \* the Node Reference Store of one getEnvironmentsState call
    stPc,       \* SpecStages: "off" | "stage2" | "services" | "done"
    stEnv,      \* the answer handed to the environments callback, or <<>>
    stHosts,    \* the answer handed to the hosts callback, or <<>>
    stLast,     \* the callback that ran last
    stServices, \* the service records of the services answers, in order
    serviceData,\* the fourth stage's result: [name, state, environment]
    results,    \* the fifth stage's result envState: <<[name, state]>> in
                \* the order of Object.keys
    gaugeLog,   \* the updateGauge calls of updateMetrics' callback, in order
    stThrown    \* the exception a callback threw, or "none"

goVars == <<hideSys, stackRef, goCycle, goPc, fetched, emitted, stackIds, stackNames,
            lastEp, lastResp, lastBatch, ref0, calls, sink>>
storeVars == <<putLog, got>>
jsVars == <<jsState, jsError, jsCycles, jsReq>>
urlVars == <<urlIn, urlOut>>
stVars == <<envIdMap, stPc, stEnv, stHosts, stLast, stServices, serviceData,
            results, gaugeLog, stThrown>>
vars == <<goVars, storeVars, jsVars, urlVars, stVars>>

(***************************************************************************)
(* Strings that are looked at character by character are sequences of      *)
(* one-character strings; identifiers, states and types are only compared  *)
(* and are plain strings.                                                  *)
(***************************************************************************)
nEmpty == <<>>
nWeb == <<"w", "e", "b">>
nDb == <<"d", "b">>
nMyService == <<"m", "y", " ", "s", "e", "r", "v", "i", "c", "e", "!">>
nHost == <<"h", "-", "1", ":", "A">>
unknown == <<"u", "n", "k", "n", "o", "w", "n">>

SeqsUpTo(S, n) == UNION {[1..k -> S] : k \in 0..n}

Endpoints == {"hosts", "stacks", "services"}

\* One element of Data.Data.  HealthState, Scale, EnvID and AgentState are
\* only handed through to set*Metrics and are left out.
Rec(id, name, host, state, sys, sid, bt, t) ==
    [ID |-> id, Name |-> name, HostName |-> host, State |-> state,
     System |-> sys, StackID |-> sid, BaseType |-> bt, Type |-> t]

(***************************************************************************)
(* getSafeName: name.replace(/[^a-zA-Z0-9_:]/g, '_')                       *)
(***************************************************************************)
SafeChars ==
    {"a","b","c","d","e","f","g","h","i","j","k","l","m",
     "n","o","p","q","r","s","t","u","v","w","x","y","z",
     "A","B","C","D","E","F","G","H","I","J","K","L","M",
     "N","O","P","Q","R","S","T","U","V","W","X","Y","Z",
     "0","1","2","3","4","5","6","7","8","9","_",":"}

\* mutant: the regular expression without its g flag replaces the first match only
getSafeName_FirstOnly(name) ==
    LET bad == {i \in 1..Len(name) : name[i] \notin SafeChars}
    IN  [i \in 1..Len(name) |->
            IF i \in bad /\ \A j \in bad : i <= j THEN "_" ELSE name[i]]

getSafeName(name) ==
    [i \in 1..Len(name) |-> IF name[i] \in SafeChars THEN name[i] ELSE "_"]

(***************************************************************************)
(* The Reference Store (Go): storeStackRef, retrieveStackRef.              *)
(***************************************************************************)
\* mutant: an id that is already stored keeps its first name
storeStackRef_KeepFirst(ref, stackID, stackName) ==
    IF stackID \in DOMAIN ref THEN ref
    ELSE [k \in DOMAIN ref \cup {stackID} |->
            IF k = stackID THEN stackName ELSE ref[k]]

\* mutant: the map is rebuilt on every store
storeStackRef_Fresh(ref, stackID, stackName) ==
    [k \in {stackID} |-> stackName]

\* mutant: the test for the empty id is missing from the loop
retrieveStackRef_NoEmptyTest(ref, stackID) ==
    IF stackID \in DOMAIN ref THEN ref[stackID] ELSE unknown

\* stackRef[stackID] = stackName; return stackRef
storeStackRef(ref, stackID, stackName) ==
    [k \in DOMAIN ref \cup {stackID} |->
        IF k = stackID THEN stackName ELSE ref[k]]

\* The loop over the map returns "unknown" in its first iteration when
\* stackID is empty, the value of the key equal to stackID when there is
\* one, and "unknown" after the loop otherwise (also for an empty map).
retrieveStackRef(ref, stackID) ==
    IF DOMAIN ref # {} /\ stackID = "" THEN unknown
    ELSE IF stackID \in DOMAIN ref THEN ref[stackID]
    ELSE unknown

(***************************************************************************)
(* processMetrics, one record at a time.                                   *)
(***************************************************************************)
\* mutant: system records are skipped whatever the flag says
skipSystem_Always(hide, x) == x.System

\* if hideSys == true && x.System == true { continue }
skipSystem(hide, x) == hide /\ x.System

\* mutant: the fallback attribute is preferred
dataType_FallbackFirst(x) == IF x.Type = "" THEN x.BaseType ELSE x.Type

\* dataType := x.BaseType; if dataType == "" { dataType = x.Type }
dataType(x) == IF x.BaseType = "" THEN x.Type ELSE x.BaseType

\* The category an endpoint's records are expected to have.
ep2cat(ep) ==
    IF ep = "hosts" THEN "host"
    ELSE IF ep = "stacks" THEN "stack"
    ELSE "service"

\* checkMetric is not in src/: the category-compatibility predicate keyed by
\* endpoint name (spec.md 4.3, step 3).
checkMetric(endpoint, dt) == dt = ep2cat(endpoint)

\* var s = x.HostName; if x.Name != "" { s = x.Name }
hostDisplayName(x) == IF x.Name # nEmpty THEN x.Name ELSE x.HostName

\* set*Metrics are not in src/: the sink takes the observation or rejects it
\* (spec.md 4.3 step 5); an accepted observation is written with sanitized
\* labels (spec.md 6) and the value 1 for the state "active", else 0.
setMetrics(acc, i, fn, name, stack, state, ok) ==
    [ref |-> acc.ref,
     err |-> acc.err,
     calls |-> Append(acc.calls,
                 [idx |-> i, fn |-> fn, name |-> name, stack |-> stack,
                  state |-> state, ok |-> ok]),
     sink |-> IF ok
              THEN Append(acc.sink,
                     [gauge |-> fn, name |-> getSafeName(name),
                      stack |-> getSafeName(stack),
                      value |-> IF state = "active" THEN 1 ELSE 0])
              ELSE acc.sink]

\* The body of the loop of processMetrics for record x at position i.
\* rej: the positions whose metric the sink rejects.
processRecord(x, i, endpoint, hide, rej, acc) ==
    IF skipSystem(hide, x) THEN acc
    ELSE IF ~checkMetric(endpoint, dataType(x)) THEN acc
    ELSE IF endpoint = "hosts"
    THEN setMetrics(acc, i, "host", hostDisplayName(x), nEmpty, x.State,
                    i \notin rej)
    ELSE IF endpoint = "stacks"
    THEN setMetrics([acc EXCEPT !.ref = storeStackRef(acc.ref, x.ID, x.Name)],
                    i, "stack", x.Name, nEmpty, x.State, i \notin rej)
    ELSE IF endpoint = "services"
    THEN LET stackName == retrieveStackRef(acc.ref, x.StackID)
             first == setMetrics(acc, i, "service", x.Name, stackName,
                                 x.State, i \notin rej)
         IN  IF i \in rej THEN first
             \* line 94: the metric is set a second time, its result dropped
             ELSE setMetrics(first, i, "service", x.Name, stackName,
                             x.State, TRUE)
    ELSE acc

\* mutant: the loop returns the sink's error instead of going on
RECURSIVE pmLoop_ReturnOnError(_, _, _, _, _, _)
pmLoop_ReturnOnError(data, i, endpoint, hide, rej, acc) ==
    IF i > Len(data) THEN acc
    ELSE LET a == processRecord(data[i], i, endpoint, hide, rej, acc)
         IN  IF Len(a.calls) > Len(acc.calls) /\ i \in rej
             THEN [a EXCEPT !.err = "sink"]
             ELSE pmLoop_ReturnOnError(data, i + 1, endpoint, hide, rej, a)

RECURSIVE pmLoop(_, _, _, _, _, _)
pmLoop(data, i, endpoint, hide, rej, acc) ==
    IF i > Len(data) THEN acc
    ELSE pmLoop(data, i + 1, endpoint, hide, rej,
                processRecord(data[i], i, endpoint, hide, rej, acc))

\* processMetrics(data, endpoint, hideSys, ch): err is what it returns, and
\* line 99 returns nil whatever the loop met
processMetrics(data, endpoint, hide, rej, ref) ==
    pmLoop(data, 1, endpoint, hide, rej,
           [ref |-> ref, err |-> "nil", calls |-> <<>>, sink |-> <<>>])

(***************************************************************************)
(* getJSON and gatherData.  A response is                                  *)
(*   net    - client.Do returned no error                                  *)
(*   status - the HTTP status                                              *)
(*   json   - the body decodes into Data                                   *)
(*   data   - the decoded records                                          *)
(***************************************************************************)
Resp(net, status, json, data) ==
    [net |-> net, status |-> status, json |-> json, data |-> data]

\* client.Do failing is logged and resp, then nil, is dereferenced (line
\* 150): a panic.  A status without "200" is logged, nothing more.  The
\* result is the decoder's: nil exactly when the body decodes.
getJSON(r) ==
    IF ~r.net THEN "panic"
    ELSE IF r.json THEN "ok"
    ELSE "err"

\* gatherData: (nil, err) on an error of getJSON, (data, nil) otherwise
gatherData(r) ==
    LET e == getJSON(r)
    IN  IF e = "ok" THEN [res |-> "ok", data |-> r.data]
        ELSE [res |-> e, data |-> <<>>]

(***************************************************************************)
(* The Go exporter, cycle by cycle.  The loop that calls gatherData and    *)
(* processMetrics per endpoint is not in src/; it is modelled from         *)
(* spec.md 4.4 and 7: hosts, then stacks, then services; an endpoint       *)
(* whose fetch returns an error is logged and its step abandoned, the      *)
(* other endpoints proceed.  Nothing in src/ recovers a panic.             *)
(***************************************************************************)
EmptyRef == [k \in {} |-> nEmpty]

NoResp == [net |-> TRUE, status |-> 0, json |-> FALSE]

\* The records a response of a cycle is made of: a stack, the same stack
\* renamed, a system stack, a stack without id; a service of each.
HostRecords ==
    {Rec("1h1", nEmpty, nHost, "active", FALSE, "", "host", "host"),
     Rec("1h2", nMyService, nHost, "inactive", TRUE, "", "", "host")}

StackRecords ==
    {Rec("1st1", nWeb, nEmpty, "active", FALSE, "", "stack", "stack"),
     Rec("1st1", nMyService, nEmpty, "inactive", FALSE, "", "", "stack"),
     Rec("1st2", nDb, nEmpty, "active", TRUE, "", "stack", ""),
     Rec("", nDb, nEmpty, "active", FALSE, "", "stack", "")}

ServiceRecords ==
    {Rec("1s1", nWeb, nEmpty, "active", FALSE, "1st1", "service", "service"),
     Rec("1s2", nMyService, nEmpty, "inactive", FALSE, "1st2", "", "service"),
     Rec("1s3", nDb, nEmpty, "active", FALSE, "", "service", "")}

Catalogue(ep) ==
    IF ep = "hosts" THEN HostRecords
    ELSE IF ep = "stacks" THEN StackRecords
    ELSE ServiceRecords

\* What the upstream API may answer to the request for endpoint ep.
Responses(ep) ==
    {Resp(FALSE, 0, FALSE, <<>>)}
    \cup {Resp(TRUE, st, FALSE, <<>>) : st \in {200, 500}}
    \cup {Resp(TRUE, st, TRUE, b) :
            st \in {200, 500}, b \in SeqsUpTo(Catalogue(ep), MaxBatch)}

\* The records of a response, read off the response itself.
IdsOf(data) == {data[i].ID : i \in 1..Len(data)}

Kept(x, ep, hide) ==
    /\ ~(hide /\ x.System)
    /\ \/ x.BaseType = ep2cat(ep)
       \/ x.BaseType = "" /\ x.Type = ep2cat(ep)

LastKept(data, ep, hide) ==
    LET keptAt == {i \in 1..Len(data) : Kept(data[i], ep, hide)}
        last(id) == CHOOSE i \in keptAt :
                        /\ data[i].ID = id
                        /\ \A j \in keptAt : data[j].ID = id => j <= i
    IN  [id \in {data[i].ID : i \in keptAt} |-> data[last(id)].Name]

NextEndpoint(ep) ==
    IF ep = "hosts" THEN "stacks"
    ELSE IF ep = "stacks" THEN "services"
    ELSE "idle"

InitGo ==
    /\ hideSys \in BOOLEAN
    /\ stackRef = EmptyRef
    /\ goCycle = 0
    /\ goPc = "idle"
    /\ fetched = [e \in Endpoints |-> "none"]
    /\ emitted = {}
    /\ stackIds = {}
    /\ stackNames = EmptyRef
    /\ lastEp = "none"
    /\ lastResp = NoResp
    /\ lastBatch = <<>>
    /\ ref0 = EmptyRef
    /\ calls = <<>>
    /\ sink = <<>>

InitStore ==
    /\ putLog = <<>>
    /\ got = <<>>

\* A request of the Node exporter: not made ("none"), out ("sent"), answered
\* by the API with resp ("answered"), or handed to its callback ("done").
NoAnswer == [err |-> FALSE, status |-> 0, body |-> "none"]
Req(st, resp) == [st |-> st, resp |-> resp]

\* A cycle of the Node exporter that has just called getEnvironmentsState:
\* the waterfall's first stage has sent the projects request.  next1 and
\* next2 count the calls the first and the second stage have made of their
\* continuation, final the calls of the waterfall's final callback (line
\* 410), which calls updateMetrics' callback.
NewCycle ==
    [projects |-> Req("sent", NoAnswer),
     environments |-> Req("none", NoAnswer),
     hosts |-> Req("none", NoAnswer),
     next1 |-> 0, next2 |-> 0, final |-> 0]

\* createServer has called updateMetrics once and armed the interval timer.
InitNode ==
    /\ jsState = "running"
    /\ jsError = "none"
    /\ jsCycles = 1
    /\ jsReq = [c \in {1} |-> NewCycle]

\* Nothing has been handed to setEndpoint, no callback of the pipeline has
\* been run.
EmptyMap == [k \in {} |-> nEmpty]

InitURL ==
    /\ urlIn = <<>>
    /\ urlOut = <<>>

InitStages ==
    /\ envIdMap = EmptyMap
    /\ stPc = "off"
    /\ stEnv = <<>>
    /\ stHosts = <<>>
    /\ stLast = "none"
    /\ stServices = <<>>
    /\ serviceData = <<>>
    /\ results = <<>>
    /\ gaugeLog = <<>>
    /\ stThrown = "none"

Init == InitGo /\ InitStore /\ InitNode /\ InitURL /\ InitStages

\* The last step's processMetrics pass over endpoint ep has run.
Ran(ep) == lastEp = ep /\ goPc # ep /\ lastResp.net /\ lastResp.json

\* A cycle starts: the per-cycle records are fresh.
StartCycle ==
    /\ goPc = "idle"
    /\ goCycle < MaxCycles
    /\ goCycle' = goCycle + 1
    /\ goPc' = "hosts"
    /\ fetched' = [e \in Endpoints |-> "none"]
    /\ emitted' = {}
    /\ stackIds' = {}
    /\ stackNames' = EmptyRef
    /\ lastEp' = "none"
    /\ lastResp' = NoResp
    /\ lastBatch' = <<>>
    /\ ref0' = stackRef
    /\ calls' = <<>>
    /\ sink' = <<>>
    /\ UNCHANGED <<hideSys, stackRef, storeVars, jsVars, urlVars, stVars>>

\* The step of endpoint goPc begins: gatherData.  A panic of getJSON leaves
\* the cycle; an error abandons the step; data is handed to processMetrics.
Fetch ==
    /\ goPc \in Endpoints
    /\ lastEp # goPc
    /\ \E r \in Responses(goPc) :
        LET g == gatherData(r)
        IN  /\ lastEp' = goPc
            /\ lastResp' = [net |-> r.net, status |-> r.status, json |-> r.json]
            /\ fetched' = [fetched EXCEPT ![goPc] = g.res]
            /\ lastBatch' = g.data
            /\ goPc' = IF g.res = "ok" THEN goPc
                       ELSE IF g.res = "panic" THEN "panic"
                       ELSE NextEndpoint(goPc)
            /\ stackIds' = IF g.res = "ok" /\ goPc = "stacks" THEN IdsOf(g.data)
                           ELSE stackIds
            /\ stackNames' = IF g.res = "ok" /\ goPc = "stacks"
                             THEN LastKept(g.data, goPc, hideSys)
                             ELSE stackNames
    /\ ref0' = stackRef
    /\ calls' = <<>>
    /\ sink' = <<>>
    /\ UNCHANGED <<hideSys, stackRef, goCycle, emitted, storeVars, jsVars, urlVars, stVars>>

\* processMetrics on the data gatherData returned; then the next endpoint.
Process ==
    /\ goPc \in Endpoints
    /\ lastEp = goPc
    /\ \E rej \in SUBSET (1..Len(lastBatch)) :
        LET pm == processMetrics(lastBatch, goPc, hideSys, rej, stackRef)
        IN  /\ stackRef' = pm.ref
            /\ calls' = pm.calls
            /\ sink' = pm.sink
            /\ emitted' = IF pm.err = "nil" THEN emitted \cup {goPc}
                           ELSE emitted
    /\ ref0' = stackRef
    /\ goPc' = NextEndpoint(goPc)
    /\ UNCHANGED <<hideSys, goCycle, fetched, stackIds, stackNames, lastEp,
                   lastResp, lastBatch, storeVars, jsVars, urlVars, stVars>>

Next == StartCycle \/ Fetch \/ Process

Spec == Init /\ [][Next]_vars

(***************************************************************************)
(* Claims checked under Spec.                                              *)
(***************************************************************************)
\* The set*Metrics calls of the last pass that were made for services.
ServiceCalls == {k \in 1..Len(calls) : calls[k].fn = "service"}

\* The stack id of the record a call was made for.
CallStackID(k) == lastBatch[calls[k].idx].StackID

FetchFailed(ep) == fetched[ep] \in {"err", "panic"}

\* C2: when the hosts fetch of a cycle has failed and neither the stacks
\* nor the services fetch has (a fetch a panic kept from being made has not
\* failed), no panic has left the cycle, and at the end of the cycle the
\* stack and the service metrics have been emitted.
C2_HostsFailureIsolated ==
    (/\ goCycle > 0
     /\ FetchFailed("hosts")
     /\ ~FetchFailed("stacks")
     /\ ~FetchFailed("services"))
        => /\ goPc # "panic"
           /\ goPc = "idle" => {"stacks", "services"} \subseteq emitted

\* C3: gatherData returns a record batch exactly when the request succeeded
\* at the network level, the status was 2xx and the body was well-formed
\* JSON; in every other case it returns an error and no batch.
C3_FetchContract ==
    lastEp \in Endpoints =>
        LET good == /\ lastResp.net
                    /\ lastResp.status \in 200..299
                    /\ lastResp.json
        IN  /\ good => fetched[lastEp] = "ok"
            /\ ~good => fetched[lastEp] = "err" /\ lastBatch = <<>>

C12_FailedFetchLeavesStore ==
    (/\ lastEp = "stacks"
     /\ \/ ~lastResp.net
        \/ lastResp.status \notin 200..299
        \/ ~lastResp.json)
        => stackRef = ref0

(***************************************************************************)
(* SpecPM: processMetrics applied once, to any batch of the records below, *)
(* for any endpoint, flag and set of rejected positions, on a Reference    *)
(* Store that is empty or holds entries of earlier cycles.                 *)
(***************************************************************************)
\* A category the endpoint does not expect.
otherCat(ep) == IF ep = "services" THEN "stack" ELSE "service"

\* Every combination of system flag, primary and fallback type attribute;
\* a renamed record that refers to a stack the store does not hold; a record
\* without id, name and stack reference.
PMRecords(ep) ==
    LET Ty == {"", ep2cat(ep), otherCat(ep)}
    IN  {Rec("1st1", nWeb, nHost, "active", sy, "1st1", bt, t) :
            sy \in BOOLEAN, bt \in Ty, t \in Ty}
        \cup {Rec("1st1", nMyService, nHost, "inactive", FALSE, "1st2",
                  ep2cat(ep), ""),
              Rec("", nEmpty, nHost, "active", FALSE, "", ep2cat(ep), "")}

PMStores == {EmptyRef, [k \in {"1st1", ""} |-> IF k = "" THEN nWeb ELSE nDb]}

InitPM ==
    /\ hideSys \in BOOLEAN
    /\ stackRef \in PMStores
    /\ goCycle = 0
    /\ goPc = "pm"
    /\ fetched = [e \in Endpoints |-> "none"]
    /\ emitted = {}
    /\ stackIds = {}
    /\ stackNames = EmptyRef
    /\ lastEp = "none"
    /\ lastResp = NoResp
    /\ lastBatch = <<>>
    /\ ref0 = stackRef
    /\ calls = <<>>
    /\ sink = <<>>
    /\ InitStore
    /\ InitNode
    /\ InitURL
    /\ InitStages

ApplyPM ==
    /\ goPc = "pm"
    /\ lastEp = "none"
    /\ \E ep \in Endpoints :
       \E data \in SeqsUpTo(PMRecords(ep), MaxBatchPM) :
       \E rej \in SUBSET (1..Len(data)) :
        LET pm == processMetrics(data, ep, hideSys, rej, stackRef)
        IN  /\ lastEp' = ep
            /\ lastBatch' = data
            /\ stackRef' = pm.ref
            /\ calls' = pm.calls
            /\ sink' = pm.sink
            /\ emitted' = IF pm.err = "nil" THEN {ep} ELSE {}
    /\ lastResp' = [net |-> TRUE, status |-> 200, json |-> TRUE]
    /\ ref0' = stackRef
    /\ UNCHANGED <<hideSys, goCycle, goPc, fetched, stackIds, stackNames,
                   storeVars, jsVars, urlVars, stVars>>

NextPM == ApplyPM

SpecPM == InitPM /\ [][NextPM]_vars

\* The positions of the last batch a set*Metrics call was made for.
CalledFor == {calls[k].idx : k \in 1..Len(calls)}

\* C8: every label value written to the sink consists of characters of
\* [a-zA-Z0-9_:] only and is the raw value handed to set*Metrics with each
\* other character replaced by "_"; the accepted calls and the written
\* observations correspond one to one, in order.
Sanitized(raw, label) ==
    /\ Len(label) = Len(raw)
    /\ \A i \in 1..Len(raw) :
          label[i] = IF raw[i] \in SafeChars THEN raw[i] ELSE "_"

C9_SystemSuppression ==
    \A ep \in Endpoints : Ran(ep) =>
        LET kept == LastKept(lastBatch, ep, hideSys)
        IN  /\ \A i \in 1..Len(lastBatch) :
                  /\ (hideSys /\ lastBatch[i].System) => i \notin CalledFor
                  /\ (~(hideSys /\ lastBatch[i].System)
                        /\ Kept(lastBatch[i], ep, FALSE))
                          => i \in CalledFor
            /\ \A j, k \in 1..Len(calls) : j <= k => calls[j].idx <= calls[k].idx
            /\ IF ep = "stacks"
               THEN /\ DOMAIN stackRef = DOMAIN ref0 \cup DOMAIN kept
                    /\ \A id \in DOMAIN stackRef :
                          stackRef[id] = IF id \in DOMAIN kept THEN kept[id]
                                         ELSE ref0[id]
               ELSE stackRef = ref0

\* With the flag set, a system record of the right category at the head of
\* the batch was skipped and the record after it got its call.
C9_Witness ==
    /\ Ran("stacks")
    /\ hideSys
    /\ Len(lastBatch) = 2
    /\ lastBatch[1].System
    /\ lastBatch[1].BaseType = "stack"
    /\ ~lastBatch[2].System
    /\ lastBatch[2].ID = ""
    /\ CalledFor = {2}
    /\ stackRef # ref0

\* C10: a record that is not suppressed as a system record gets its
\* set*Metrics call exactly when its primary type attribute, or its
\* fallback type attribute if the primary one is empty, is the endpoint's
\* category; a record with both attributes empty gets none on any endpoint.
C10_CategoryResolution ==
    \A ep \in Endpoints : Ran(ep) =>
        \A i \in 1..Len(lastBatch) :
            LET x == lastBatch[i]
            IN  /\ ~(hideSys /\ x.System) =>
                      (i \in CalledFor <=>
                          IF x.BaseType # "" THEN x.BaseType = ep2cat(ep)
                          ELSE x.Type = ep2cat(ep))
                /\ (x.BaseType = "" /\ x.Type = "") => i \notin CalledFor

\* A record with both attributes empty was skipped; one with an empty
\* primary attribute was classified by its fallback attribute; one whose
\* primary attribute names another category was skipped although its
\* fallback attribute matches.
C10_Witness ==
    /\ Ran("hosts")
    /\ ~hideSys
    /\ Len(lastBatch) = 2
    /\ lastBatch[1].BaseType = "service" /\ lastBatch[1].Type = "host"
    /\ lastBatch[2].BaseType = "" /\ lastBatch[2].Type = "host"
    /\ CalledFor = {2}

\* The calls of the last pass the sink rejected.
RejectedCalls == {k \in 1..Len(calls) : ~calls[k].ok}

\* C11: in a pass over a batch, after a record whose metric the sink has
\* rejected every later record that passes the system filter and the
\* category filter still gets its set*Metrics call, with the values of the
\* record, and the pass returns no error.
C11_RejectionDoesNotAbort ==
    \A ep \in Endpoints : (lastEp = ep /\ goPc = "pm") =>
        /\ ep \in emitted
        /\ \A k \in RejectedCalls :
              \A i \in 1..Len(lastBatch) :
                  (i > calls[k].idx /\ Kept(lastBatch[i], ep, hideSys))
                      => \E j \in 1..Len(calls) :
                            /\ j > k
                            /\ calls[j].idx = i
                            /\ calls[j].state = lastBatch[i].State

\* The sink rejected the metric of the first of two stack records and
\* accepted that of the second.
C11_Witness ==
    /\ lastEp = "stacks"
    /\ goPc = "pm"
    /\ Len(lastBatch) = 2
    /\ Len(calls) = 2
    /\ ~calls[1].ok /\ calls[1].idx = 1
    /\ calls[2].ok /\ calls[2].idx = 2
    /\ Len(sink) = 1
    /\ "stacks" \in emitted

\* The calls of the last pass made for the record at position i.
CallsFor(i) == {k \in 1..Len(calls) : calls[k].idx = i}

\* C19: in a services pass setServiceMetrics is called exactly once for
\* each record that passes the system filter and the category filter and
\* whose metric the sink accepts, and for no other record more than once.
C19_ServiceEmittedOnce ==
    (lastEp = "services" /\ goPc = "pm") =>
        \A i \in 1..Len(lastBatch) :
            /\ Kept(lastBatch[i], "services", hideSys)
                  => Cardinality(CallsFor(i)) = 1
            /\ Cardinality(CallsFor(i)) <= 1

(***************************************************************************)
(* SpecURL: setEndpoint applied to any base URL and component.  URLs are   *)
(* sequences of characters.                                                *)
(***************************************************************************)
sV1 == <<"v", "1">>
sV2beta == <<"v", "2", "-", "b", "e", "t", "a">>
sSlash == <<"/">>
sHosts == <<"h", "o", "s", "t", "s">>
sStacks == <<"s", "t", "a", "c", "k", "s">>
sServices == <<"s", "e", "r", "v", "i", "c", "e", "s">>
sRancherV1 ==
    <<"h","t","t","p",":","/","/","r","a","n","c","h","e","r",".",
      "l","o","c","a","l","/","v","1">>

\* s has the string old at position i
HasAt(s, old, i) ==
    /\ i + Len(old) - 1 <= Len(s)
    /\ \A j \in 1..Len(old) : s[i + j - 1] = old[j]

\* mutant: strings.Replace with n = -1 replaces every occurrence
RECURSIVE ReplaceAll(_, _, _)
ReplaceAll(s, old, new) ==
    IF Len(s) < Len(old) THEN s
    ELSE IF HasAt(s, old, 1)
    THEN new \o ReplaceAll(SubSeq(s, Len(old) + 1, Len(s)), old, new)
    ELSE <<s[1]>> \o ReplaceAll(Tail(s), old, new)

Replace_All(s, old, new, n) == ReplaceAll(s, old, new)

\* strings.Replace(s, old, new, n) for n = 1 and a non-empty old: the
\* string is scanned from its start and the leftmost occurrence replaced.
RECURSIVE Replace(_, _, _, _)
Replace(s, old, new, n) ==
    IF n = 0 \/ Len(s) < Len(old) THEN s
    ELSE IF HasAt(s, old, 1)
    THEN new \o Replace(SubSeq(s, Len(old) + 1, Len(s)), old, new, n - 1)
    ELSE <<s[1]>> \o Replace(Tail(s), old, new, n)

\* endpoint = (rancherURL + "/" + component + "/")
\* endpoint = strings.Replace(endpoint, "v1", "v2-beta", 1)
setEndpoint(rancherURL, component) ==
    Replace(rancherURL \o sSlash \o component \o sSlash, sV1, sV2beta, 1)

\* The base URLs: every string of up to MaxUrlLen of these characters, and
\* the URL of spec.md's example.  The components: the three endpoints and
\* one that holds "v1" itself.
UrlChars == {"v", "1", "/", "a"}
BaseUrls == SeqsUpTo(UrlChars, MaxUrlLen) \cup {sRancherV1}
Components == {sHosts, sStacks, sServices, <<"v", "1", "v", "1">>}

InitURLs ==
    /\ InitGo /\ InitStore /\ InitNode /\ InitStages
    /\ urlIn \in {[base |-> b, component |-> c] :
                    b \in BaseUrls, c \in Components}
    /\ urlOut = <<>>

ApplySetEndpoint ==
    /\ urlIn # <<>>
    /\ urlOut = <<>>
    /\ urlOut' = setEndpoint(urlIn.base, urlIn.component)
    /\ UNCHANGED <<goVars, storeVars, jsVars, stVars, urlIn>>

NextURL == ApplySetEndpoint

SpecURL == InitURLs /\ [][NextURL]_vars

\* The positions at which s holds "v1".
V1At(s) == {i \in 1..Len(s) : HasAt(s, sV1, i)}

\* C14: the endpoint URL is base + "/" + component + "/" when that string
\* holds no "v1"; otherwise it is that string with its first "v1" replaced
\* by "v2-beta" and everything before and after it as it was; and the base
\* "http://rancher.local/v1" with "hosts" gives
\* "http://rancher.local/v2-beta/hosts/".
C14_Endpoint ==
    urlOut # <<>> =>
        LET whole == urlIn.base \o sSlash \o urlIn.component \o sSlash
            first == CHOOSE i \in V1At(whole) : \A j \in V1At(whole) : i <= j
        IN  /\ V1At(whole) = {} => urlOut = whole
            /\ V1At(whole) # {} =>
                  /\ Len(urlOut) = Len(whole) + 5
                  /\ \A i \in 1..(first - 1) : urlOut[i] = whole[i]
                  /\ HasAt(urlOut, sV2beta, first)
                  /\ \A i \in (first + 2)..Len(whole) : urlOut[i + 5] = whole[i]
            /\ (urlIn.base = sRancherV1 /\ urlIn.component = sHosts) =>
                  urlOut = <<"h","t","t","p",":","/","/","r","a","n","c","h",
                             "e","r",".","l","o","c","a","l","/","v","2","-",
                             "b","e","t","a","/","h","o","s","t","s","/">>

\* A base that holds "v1" twice, with a component that holds it again: the
\* first was replaced and the others are still there.
C14_Witness ==
    /\ urlOut # <<>>
    /\ urlIn.base = <<"v", "1", "v", "1">>
    /\ urlIn.component = <<"v", "1", "v", "1">>
    /\ urlOut = sV2beta \o <<"v", "1", "/", "v", "1", "v", "1", "/">>

(***************************************************************************)
(* SpecStore: the Reference Store under any sequence of puts and gets.     *)
(***************************************************************************)
StoreIds == {"", "1st1", "1st2"}
StoreNames == {nWeb, nDb}

Put ==
    /\ Len(putLog) < MaxPuts
    /\ \E id \in StoreIds, name \in StoreNames :
        /\ stackRef' = storeStackRef(stackRef, id, name)
        /\ putLog' = Append(putLog, [id |-> id, name |-> name])
    /\ got' = <<>>
    /\ UNCHANGED <<hideSys, goCycle, goPc, fetched, emitted, stackIds,
                   stackNames, lastEp, lastResp, lastBatch, ref0, calls,
                   sink, jsVars, urlVars, stVars>>

Get ==
    /\ \E id \in StoreIds \cup {"1st9"} :
        got' = [id |-> id, name |-> retrieveStackRef(stackRef, id)]
    /\ UNCHANGED <<goVars, putLog, jsVars, urlVars, stVars>>

NextStore == Put \/ Get

SpecStore == Init /\ [][NextStore]_vars

\* C6: a get returns the name of the most recent put for its id, and
\* "unknown" when the id is empty or no put for it has occurred.
C6_PutGet ==
    got # <<>> =>
        LET puts == {k \in 1..Len(putLog) : putLog[k].id = got.id}
            last == CHOOSE k \in puts : \A j \in puts : j <= k
        IN  got.name = IF got.id = "" \/ puts = {} THEN unknown
                       ELSE putLog[last].name

\* An id was put twice with different names and the get returned the
\* second; the empty id was put as well.
C6_Witness ==
    /\ Len(putLog) = 3
    /\ putLog[1] = [id |-> "1st1", name |-> nWeb]
    /\ putLog[2] = [id |-> "1st1", name |-> nDb]
    /\ putLog[3].id = ""
    /\ got = [id |-> "1st1", name |-> nDb]

(***************************************************************************)
(* SpecNode: the Node exporter.  createServer calls updateMetrics once and *)
(* then on every tick of setInterval; updateMetrics starts                 *)
(* getEnvironmentsState, whose waterfall sends the projects request.       *)
(* An exception nothing catches ends the Node process.                     *)
(***************************************************************************)
\* What the API may answer to the projects request: a network error, or a
\* status with a body that is no JSON ("malformed"), JSON without
\* data[0].links ("nolinks") or JSON with them ("links").
ProjectsAnswers ==
    {[err |-> TRUE, status |-> 0, body |-> "none"]}
    \cup {[err |-> FALSE, status |-> st, body |-> b] :
            st \in {200, 500}, b \in {"malformed", "nolinks", "links"}}

\* jsonRequest: callback(err) on a request error and on a body JSON.parse
\* rejects, callback(null, data) otherwise; the status code is only logged.
jsonRequest(a) ==
    IF a.err \/ a.body = "malformed" THEN "err" ELSE "data"

\* mutant: the timer goes on firing when the process has been told to stop
Tick_AfterStop ==
    /\ jsState \in {"running", "exited"}
    /\ jsCycles <= MaxTicks
    /\ jsCycles' = jsCycles + 1
    /\ jsReq' = [c \in 1..(jsCycles + 1) |->
                    IF c = jsCycles + 1 THEN NewCycle ELSE jsReq[c]]
    /\ UNCHANGED <<urlVars, stVars, goVars, storeVars, jsState, jsError>>

\* setInterval(updateMetrics, update_interval): a tick calls updateMetrics
\* whatever the earlier cycles are doing.
Tick ==
    /\ jsState = "running"
    /\ jsCycles <= MaxTicks
    /\ jsCycles' = jsCycles + 1
    /\ jsReq' = [c \in 1..(jsCycles + 1) |->
                    IF c = jsCycles + 1 THEN NewCycle ELSE jsReq[c]]
    /\ UNCHANGED <<urlVars, stVars, goVars, storeVars, jsState, jsError>>

\* The API answers the projects request of cycle c.
Answer ==
    /\ jsState = "running"
    /\ \E c \in DOMAIN jsReq : \E a \in ProjectsAnswers :
        /\ jsReq[c].projects.st = "sent"
        /\ jsReq' = [jsReq EXCEPT ![c].projects = Req("answered", a)]
    /\ UNCHANGED <<urlVars, stVars, goVars, storeVars, jsState, jsError, jsCycles>>

\* The answer reaches the callback of the waterfall's first stage (lines
\* 321-338) and what it calls:
\*   err            line 322 reads json.data of an undefined json: TypeError;
\*   no links       next(new Error(..)) reaches the waterfall's final
\*                  callback and updateMetrics' callback, which throws it
\*                  (line 275): Error;
\*   links          next(null, environments, hosts) runs the second stage,
\*                  which sends the environments and the hosts request and
\*                  then reads servicesUrl (line 364), a name no scope
\*                  declares: ReferenceError.
\* Nothing catches any of the three.
Deliver ==
    /\ jsState = "running"
    /\ \E c \in DOMAIN jsReq :
        LET a == jsReq[c].projects.resp
        IN  /\ jsReq[c].projects.st = "answered"
            /\ jsError' = IF jsonRequest(a) = "err" THEN "TypeError"
                          ELSE IF a.body = "nolinks" THEN "Error"
                          ELSE "ReferenceError"
            /\ jsReq' = [jsReq EXCEPT
                 ![c] = IF jsonRequest(a) = "err"
                        THEN [@ EXCEPT !.projects = Req("done", a)]
                        ELSE IF a.body = "nolinks"
                        THEN [@ EXCEPT !.projects = Req("done", a),
                                       !.next1 = @ + 1,
                                       !.final = @ + 1]
                        ELSE [projects |-> Req("done", a),
                              environments |-> Req("sent", NoAnswer),
                              hosts |-> Req("sent", NoAnswer),
                              next1 |-> jsReq[c].next1 + 1,
                              next2 |-> jsReq[c].next2,
                              final |-> jsReq[c].final]]
    /\ jsState' = "crashed"
    /\ UNCHANGED <<urlVars, stVars, goVars, storeVars, jsCycles>>

\* process.on('SIGINT', ..): process.exit(1)
Sigint ==
    /\ jsState = "running"
    /\ jsState' = "exited"
    /\ UNCHANGED <<urlVars, stVars, goVars, storeVars, jsError, jsCycles, jsReq>>

NextNode == Tick \/ Answer \/ Deliver \/ Sigint

SpecNode == Init /\ [][NextNode]_vars

\* A cycle is in progress while one of its requests is out or its answer
\* has not been handled.
InProgress(c) ==
    \E q \in {"projects", "environments", "hosts"} :
        jsReq[c][q].st \in {"sent", "answered"}

\* C4: while the process runs, at most one cycle is in progress.
C4_NoOverlappingCycles ==
    jsState = "running" =>
        Cardinality({c \in DOMAIN jsReq : InProgress(c)}) <= 1

\* The fetch of cycle c has failed: a network error, a status that is not
\* 2xx, or a body that is no JSON.
FetchFailedNode(c) ==
    LET p == jsReq[c].projects
    IN  /\ p.st = "done"
        /\ \/ p.resp.err
           \/ p.resp.status \notin 200..299
           \/ p.resp.body = "malformed"

\* C5: after a cycle whose fetch has failed, no exception has ended the
\* process: the scheduler is still there for the next tick.
C5_SchedulerSurvivesFailure ==
    (\E c \in DOMAIN jsReq : FetchFailedNode(c)) => jsState # "crashed"

(***************************************************************************)
(* SpecStages: the callbacks of getEnvironmentsState's second stage, its   *)
(* fourth and fifth stage and the callback of updateMetrics, each applied  *)
(* to what the API can answer.  SpecNode shows that the process ends at    *)
(* line 364 before any of them is called; here they are run as the         *)
(* functions they are, from a getEnvironmentsState call whose second stage *)
(* has sent the environments and the hosts request.                        *)
(***************************************************************************)
\* The value undefined, and the property key it is turned into.
jsUndefined == <<"undefined">>
nUndefined == <<"u", "n", "d", "e", "f", "i", "n", "e", "d">>

EnvRecords == {[id |-> "1e1", name |-> nWeb], [id |-> "1e2", name |-> nDb]}

NodeHostRecords ==
    {[id |-> "1h1", name |-> nEmpty, hostname |-> nHost, state |-> "active"],
     [id |-> "1h2", name |-> nMyService, hostname |-> nHost,
      state |-> "inactive"]}

\* The service records of the API: environment 1e9 is in no answer.
RawServices ==
    {[name |-> nWeb, state |-> st, environmentId |-> e] :
        st \in {"active", "inactive"}, e \in {"1e1", "1e2", "1e9"}}

\* What jsonRequest hands to a callback: (err) or (null, json)
EnvAnswers ==
    {[err |-> TRUE, data |-> <<>>]}
    \cup {[err |-> FALSE, data |-> d] : d \in SeqsUpTo(EnvRecords, MaxEnvs)}

HostsAnswers ==
    {[err |-> TRUE, data |-> <<>>]}
    \cup {[err |-> FALSE, data |-> d] : d \in SeqsUpTo(NodeHostRecords, 1)}

\* json.data.forEach(function(env) { envIdMap[env.id] = env.name })
RECURSIVE writeIdMap(_, _, _)
writeIdMap(map, data, i) ==
    IF i > Len(data) THEN map
    ELSE writeIdMap([k \in DOMAIN map \cup {data[i].id} |->
                        IF k = data[i].id THEN data[i].name ELSE map[k]],
                    data, i + 1)

\* The forEach of the hosts callback (lines 360-362).
writeIdMap_Hosts(map, data) == writeIdMap(map, data, 1)

\* Fourth stage (lines 381-398): each service becomes {name, state,
\* environment: envIdMap[service.environmentId]}, the lists are joined.
mapService(map, service) ==
    [name |-> service.name, state |-> service.state,
     environment |-> IF service.environmentId \in DOMAIN map
                     THEN map[service.environmentId]
                     ELSE jsUndefined]

RECURSIVE stage4(_, _, _)
stage4(map, servicesData, i) ==
    IF i > Len(servicesData) THEN <<>>
    ELSE [j \in 1..Len(servicesData[i]) |->
             mapService(map, servicesData[i][j])]
         \o stage4(map, servicesData, i + 1)

\* A property key: undefined becomes "undefined".
keyOf(v) == IF v = jsUndefined THEN nUndefined ELSE v

\* envState is kept as the sequence of its [name, state] entries in the
\* order of insertion, the order of Object.keys.
keyAt(envState, k) == {p \in 1..Len(envState) : envState[p].name = k}

\* mutant: the state of the last service of an environment wins
stage5Step_LastWins(envState, service) ==
    LET k == keyOf(service.environment)
    IN  IF keyAt(envState, k) = {}
        THEN Append(envState, [name |-> k, state |-> service.state])
        ELSE [p \in 1..Len(envState) |->
                IF envState[p].name = k
                THEN [name |-> k, state |-> service.state]
                ELSE envState[p]]

\* if (!envState[e]) envState[e] = state
\* else if (state != 'active') envState[e] = state
stage5Step(envState, service) ==
    LET k == keyOf(service.environment)
        at == keyAt(envState, k)
    IN  IF at = {}
        THEN Append(envState, [name |-> k, state |-> service.state])
        ELSE IF (\E p \in at : envState[p].state = "")
                \/ service.state # "active"
        THEN [p \in 1..Len(envState) |->
                IF p \in at THEN [name |-> k, state |-> service.state]
                ELSE envState[p]]
        ELSE envState

\* Fifth stage (lines 399-409)
RECURSIVE stage5(_, _, _)
stage5(serviceD, i, envState) ==
    IF i > Len(serviceD) THEN envState
    ELSE stage5(serviceD, i + 1, stage5Step(envState, serviceD[i]))

\* The callback of updateMetrics (lines 272-300) for err == null.
gaugeValue(state) == IF state = "active" THEN 1 ELSE 0

environmentUpdates(res) ==
    [p \in 1..Len(res) |->
        [gauge |-> "environment", name |-> getSafeName(res[p].name),
         value |-> gaugeValue(res[p].state)]]

\* servicedata.map(..): getSafeName(item.environment) calls replace on
\* undefined for a service without environment, a TypeError that ends the
\* map; n is the number of items handled before it.
servicesHandled(serviceD) ==
    LET bad == {i \in 1..Len(serviceD) : serviceD[i].environment = jsUndefined}
    IN  IF bad = {} THEN Len(serviceD)
        ELSE (CHOOSE i \in bad : \A j \in bad : i <= j) - 1

servicesUpdates(serviceD) ==
    [i \in 1..servicesHandled(serviceD) |->
        [gauge |-> "services",
         name |-> getSafeName(serviceD[i].environment) \o <<"/">>
                  \o getSafeName(serviceD[i].name),
         value |-> gaugeValue(serviceD[i].state)]]

\* Object.keys(results).forEach(..) a second time, into hosts_gauge
hostsUpdates(res) ==
    [p \in 1..Len(res) |->
        [gauge |-> "hosts", name |-> getSafeName(res[p].name),
         value |-> gaugeValue(res[p].state)]]

updateMetricsCallback(res, serviceD) ==
    IF servicesHandled(serviceD) < Len(serviceD)
    THEN [log |-> environmentUpdates(res) \o servicesUpdates(serviceD),
          thrown |-> "TypeError"]
    ELSE [log |-> environmentUpdates(res) \o servicesUpdates(serviceD)
                  \o hostsUpdates(res),
          thrown |-> "none"]

InitSt ==
    /\ InitGo /\ InitStore /\ InitNode /\ InitURL
    /\ envIdMap = EmptyMap
    /\ stPc = "stage2"
    /\ stEnv = <<>>
    /\ stHosts = <<>>
    /\ stLast = "none"
    /\ stServices = <<>>
    /\ serviceData = <<>>
    /\ results = <<>>
    /\ gaugeLog = <<>>
    /\ stThrown = "none"

\* The callback of the environments request (lines 341-352).  next(err)
\* reaches the final callback and updateMetrics' callback, which throws it
\* (line 275); next(null, servicesUrl) starts the third stage, which sends
\* the services requests.
EnvironmentsCallback ==
    /\ stPc = "stage2"
    /\ stThrown = "none"
    /\ \E a \in EnvAnswers :
        /\ stEnv' = a
        /\ envIdMap' = IF a.err THEN envIdMap
                        ELSE writeIdMap(envIdMap, a.data, 1)
        /\ stPc' = IF a.err THEN "done" ELSE "services"
        /\ stThrown' = IF a.err THEN "Error" ELSE "none"
    /\ stLast' = "environments"
    /\ UNCHANGED <<goVars, storeVars, jsVars, urlVars, stHosts, stServices,
                   serviceData, results, gaugeLog>>

\* The callback of the hosts request (lines 353-363): an error goes to
\* next(err) and is thrown at line 275; otherwise every record of the
\* answer is written into envIdMap, and nothing else happens.
HostsCallback ==
    /\ stPc \in {"stage2", "services", "done"}
    /\ stThrown = "none"
    /\ stHosts = <<>>
    /\ \E a \in HostsAnswers :
        /\ stHosts' = a
        /\ envIdMap' = IF a.err THEN envIdMap
                        ELSE writeIdMap_Hosts(envIdMap, a.data)
        /\ stPc' = IF a.err THEN "done" ELSE stPc
        /\ stThrown' = IF a.err THEN "Error" ELSE "none"
    /\ stLast' = "hosts"
    /\ UNCHANGED <<goVars, storeVars, jsVars, urlVars, stEnv, stServices,
                   serviceData, results, gaugeLog>>

\* The services answers have arrived (lines 373-379): the fourth and the
\* fifth stage, the final callback and updateMetrics' callback run.  The
\* answers are the service records svcs, in two lists.
ServicesCallback ==
    /\ stPc = "services"
    /\ stThrown = "none"
    /\ \E svcs \in SeqsUpTo(RawServices, MaxServices) :
       \E cut \in 0..Len(svcs) :
        LET servicesData == <<SubSeq(svcs, 1, cut),
                              SubSeq(svcs, cut + 1, Len(svcs))>>
            flattened == stage4(envIdMap, servicesData, 1)
            envState == stage5(flattened, 1, <<>>)
            u == updateMetricsCallback(envState, flattened)
        IN  /\ stServices' = svcs
            /\ serviceData' = flattened
            /\ results' = envState
            /\ gaugeLog' = u.log
            /\ stThrown' = u.thrown
    /\ stPc' = "done"
    /\ stLast' = "services"
    /\ UNCHANGED <<goVars, storeVars, jsVars, urlVars, envIdMap, stEnv,
                   stHosts>>

NextStages == EnvironmentsCallback \/ HostsCallback \/ ServicesCallback

SpecStages == InitSt /\ [][NextStages]_vars

\* The label a services gauge update carries for the environment label lab
\* and the service name: the two sanitized, with a separator between them.
ServiceLabel(label, lab, name) ==
    /\ Len(label) = Len(lab) + 1 + Len(name)
    /\ Sanitized(lab, SubSeq(label, 1, Len(lab)))
    /\ Sanitized(name, SubSeq(label, Len(lab) + 2, Len(label)))

GroupOf(service) ==
    IF service.environment = jsUndefined THEN nUndefined
    ELSE service.environment

GoServiceNotDropped ==
    Ran("services") =>
        \A i \in 1..Len(lastBatch) :
            Kept(lastBatch[i], "services", hideSys) =>
                \E k \in CallsFor(i) :
                    calls[k].stack =
                        IF lastBatch[i].StackID = ""
                           \/ lastBatch[i].StackID \notin DOMAIN ref0
                        THEN unknown
                        ELSE ref0[lastBatch[i].StackID]

\* Go, cycle (Spec): the hosts step and the services step leave stackRef
\* as it is.
GoStoreFrame ==
    [][(goPc \in {"hosts", "services"}) => (stackRef' = stackRef)]_vars

\* Go, hosts pass (SpecPM): every call is made with the display name and
\* the state of its host record.
GoHostsGauge ==
    Ran("hosts") =>
        \A k \in 1..Len(calls) :
            LET x == lastBatch[calls[k].idx]
            IN  /\ calls[k].fn = "host"
                /\ calls[k].name = IF x.Name # nEmpty THEN x.Name ELSE x.HostName
                /\ calls[k].state = x.State

\* C13: the first cycle has started when createServer returns, before any
\* tick; from then on cycles start one at a time, each by sending its
\* projects request, and only while the process runs; once the stop signal
\* has been received the process has exited and no cycle starts.
C13_Scheduler ==
    /\ jsCycles = 1 /\ jsReq[1] = NewCycle
    /\ [][/\ jsCycles' # jsCycles =>
                /\ jsState = "running"
                /\ jsCycles' = jsCycles + 1
                /\ DOMAIN jsReq' = 1..jsCycles'
                /\ jsReq'[jsCycles'] = NewCycle
          /\ jsState = "exited" =>
                /\ jsState' = "exited"
                /\ jsCycles' = jsCycles
                /\ jsReq' = jsReq]_vars

\* Two ticks have started the second and the third cycle, and then the stop
\* signal has been received.
C13_Witness ==
    /\ jsState = "exited"
    /\ jsCycles = 3
    /\ \A c \in 1..3 : jsReq[c].projects.st = "sent"

\* C20: in every cycle whose projects answer has been handled each stage
\* that ran has called its continuation exactly once and the final callback
\* has fired exactly once.
C20_ContinuationsOnce ==
    \A c \in DOMAIN jsReq :
        jsReq[c].projects.st = "done" =>
            /\ jsReq[c].next1 = 1
            /\ jsReq[c].environments.st # "none" => jsReq[c].next2 = 1
            /\ jsReq[c].final = 1

====
